---- MODULE Spec2Model ----
(***************************************************************************)
(* A model of daily-idea-bot: the source registry and the concurrent trend *)
(* collector (src/scraper.py), the digest formatter and LLM response       *)
(* parser (src/analyzer.py) and the trigger-to-chat pipeline (src/main.py, *)
(* src/bot.py).                                                            *)
(***************************************************************************)
EXTENDS Integers, Sequences, FiniteSets, TLC

(***************************************************************************)
(* Optional values (Python's `X | None`): None is the empty tuple and a    *)
(* present value v is <<v>>.                                               *)
(***************************************************************************)
None == <<>>
Some(v) == <<v>>
Val(o) == o[1]

\* Python truthiness of an optional string: None and "" are falsy.
TruthyStr(o) == o # None /\ Val(o) # ""

\* Python truthiness of an optional integer: None and 0 are falsy.
TruthyInt(o) == o # None /\ Val(o) # 0

Min(a, b) == IF a <= b THEN a ELSE b

\* xs[:n]
Take(xs, n) == SubSeq(xs, 1, Min(n, Len(xs)))

(***************************************************************************)
(* Bounds of the model.                                                    *)
(***************************************************************************)
MaxEnabled == 3
MaxTrends == 12
MaxIdeas == 3
MaxQueries == 2
PostCount == 1
MaxRepos == 11
MaxItems == 2

(***************************************************************************)
(* The registry: src/scraper.py, AVAILABLE_SCRAPERS and the scraper        *)
(* classes' attributes.                                                    *)
(***************************************************************************)
AVAILABLE_SCRAPERS == [twitter |-> "TwitterScraper", github |-> "GitHubScraper"]

DEFAULT_SCRAPERS == <<"twitter", "github">>

\* The class attribute requires_sela.
requires_sela(cls) == cls = "TwitterScraper"

\* The class attribute name.
scraper_name(cls) == IF cls = "TwitterScraper" THEN "Twitter/X" ELSE "GitHub"

\* Identifiers a configuration may name: the registered ones and an unknown one.
Identifiers == {"twitter", "github", "reddit"}

\* Credentials a configuration may supply: absent, empty, present.
ApiKeys == {None, Some(""), Some("sela-key")}

\* TrendScraper.__init__: `enabled_scrapers or DEFAULT_SCRAPERS`.
enabled_or_default(arg) == IF arg = None \/ Val(arg) = <<>> THEN DEFAULT_SCRAPERS ELSE Val(arg)

\* TwitterScraper.DEFAULT_QUERIES and the default of post_count.
DEFAULT_QUERIES == <<"AI agent", "developer tools", "tech meme", "viral app">>

\* scraper_class(client=..., sela_api_key=...): BaseScraper.__init__, and
\* TwitterScraper.__init__ with no search_queries given.
DEFAULT_POST_COUNT == 5

new_scraper(cls, key) ==
    [cls |-> cls, sela_api_key |-> key,
     search_queries |-> IF cls = "TwitterScraper" THEN DEFAULT_QUERIES ELSE <<>>,
     post_count |-> IF cls = "TwitterScraper" THEN DEFAULT_POST_COUNT ELSE 0]

(***************************************************************************)
(* State.                                                                  *)
(*   TrendScraper fields and the progress of its _init_scrapers loop.      *)
(***************************************************************************)
VARIABLES
    enabled_scrapers,   \* TrendScraper.enabled_scrapers
    sela_api_key,       \* TrendScraper.sela_api_key
    scrapers,           \* TrendScraper._scrapers
    init_i,             \* _init_scrapers: index of the next identifier of the loop
    init_log,           \* _init_scrapers: the warnings printed so far
    init_error,         \* _init_scrapers: the exception that ended it, if any
    \* TrendAnalyzer._format_trends
    fmt_trends,         \* the argument `trends`
    fmt_out,            \* the returned text as its list of lines, None before the call
    \* TrendAnalyzer.analyze_and_generate
    llm_response,       \* the outcome of generate_content: an error, or a response
    parse_out,          \* what analyze_and_generate did with it, None before the call
    \* one call of a source's fetch()
    fetch_scraper,      \* self: the scraper instance
    fetch_pc,           \* "start", "loop" (TwitterScraper's for loop), "done"
    fetch_qi,           \* TwitterScraper.fetch: index of the next query
    all_items,          \* TwitterScraper.fetch: the local list all_items
    fetch_log,          \* the messages printed by the call
    fetch_http,         \* the HTTP exchanges of the call, in order
    fetch_result,       \* what the call returned or raised, None while it runs
    \* DailyIdeaService: the process and its two triggers, the scheduled job
    \* and the /idea handler
    svc,                \* "running", "stopping" (stop() was called), "closed" (loop.close())
    client_closed,      \* TrendScraper.client was closed
    pc,                 \* per trigger: where its coroutine stands
    tasks,              \* per trigger: get_all_trends' tasks/results, one per scraper
    run_trends,         \* per trigger: the local `trends`, None before get_all_trends returns
    run_log,            \* per trigger: what get_all_trends printed
    gen_calls,          \* per trigger: the generate_content requests made
    gen_out,            \* per trigger: the local `result`, None before generation returns
    run_error,          \* per trigger: the exception on its way to the caller
    chat                \* per trigger: the messages delivered to the chat

regVars == <<enabled_scrapers, sela_api_key, scrapers, init_i, init_log, init_error>>
fmtVars == <<fmt_trends, fmt_out>>
parseVars == <<llm_response, parse_out>>
fetchVars == <<fetch_scraper, fetch_pc, fetch_qi, all_items, fetch_log, fetch_http, fetch_result>>

svcVars == <<svc, client_closed, pc, tasks, run_trends, run_log, gen_calls, gen_out, run_error, chat>>

vars == <<regVars, fmtVars, parseVars, fetchVars, svcVars>>

\* The variables outside each group.
notRegVars == <<fmtVars, parseVars, fetchVars, svcVars>>
notFmtVars == <<regVars, parseVars, fetchVars, svcVars>>
notParseVars == <<regVars, fmtVars, fetchVars, svcVars>>
notFetchVars == <<regVars, fmtVars, parseVars, svcVars>>
notSvcVars == <<regVars, fmtVars, parseVars, fetchVars>>

\* The two coroutines that run _generate_and_send_ideas: _scheduled_job and
\* the /idea handler handle_idea.
Triggers == {"scheduled", "idea"}

\* Each group at rest, for the specifications that do not exercise it.
RegistryIdle ==
    /\ enabled_scrapers = DEFAULT_SCRAPERS
    /\ sela_api_key = None
    /\ scrapers = <<>>
    /\ init_i = 1
    /\ init_log = <<>>
    /\ init_error = None

FormatIdle ==
    /\ fmt_trends = <<>>
    /\ fmt_out = None

ParseIdle ==
    /\ llm_response = None
    /\ parse_out = None

ServiceIdle ==
    /\ svc = "closed"
    /\ client_closed = FALSE
    /\ pc = [r \in Triggers |-> "idle"]
    /\ tasks = [r \in Triggers |-> <<>>]
    /\ run_trends = [r \in Triggers |-> None]
    /\ run_log = [r \in Triggers |-> <<>>]
    /\ gen_calls = [r \in Triggers |-> 0]
    /\ gen_out = [r \in Triggers |-> None]
    /\ run_error = [r \in Triggers |-> None]
    /\ chat = [r \in Triggers |-> <<>>]

FetchIdle ==
    /\ fetch_scraper = new_scraper("GitHubScraper", None)
    /\ fetch_pc = "done"
    /\ fetch_qi = 1
    /\ all_items = <<>>
    /\ fetch_log = <<>>
    /\ fetch_http = <<>>
    /\ fetch_result = None

(***************************************************************************)
(* TrendScraper._init_scrapers.                                            *)
(***************************************************************************)
\* One iteration of the loop over enabled_scrapers, on st = [scrapers, log, error].
init_scrapers_step_unchecked_lookup(st, name, key) ==
    IF name \notin DOMAIN AVAILABLE_SCRAPERS
    THEN [st EXCEPT !.error = Some("KeyError")]
    ELSE LET scraper_class == AVAILABLE_SCRAPERS[name] IN
         IF requires_sela(scraper_class) /\ ~TruthyStr(key)
         THEN [st EXCEPT !.log = Append(@, [warning |-> "requires Sela API key", name |-> name])]
         ELSE [st EXCEPT !.scrapers = Append(@, new_scraper(scraper_class, key))]

init_scrapers_step_none_check_only(st, name, key) ==
    IF name \notin DOMAIN AVAILABLE_SCRAPERS
    THEN [st EXCEPT !.log = Append(@, [warning |-> "unknown scraper", name |-> name])]
    ELSE LET scraper_class == AVAILABLE_SCRAPERS[name] IN
         IF requires_sela(scraper_class) /\ key = None
         THEN [st EXCEPT !.log = Append(@, [warning |-> "requires Sela API key", name |-> name])]
         ELSE [st EXCEPT !.scrapers = Append(@, new_scraper(scraper_class, key))]

init_scrapers_step(st, name, key) ==
    IF name \notin DOMAIN AVAILABLE_SCRAPERS
    THEN [st EXCEPT !.log = Append(@, [warning |-> "unknown scraper", name |-> name])]
    ELSE LET scraper_class == AVAILABLE_SCRAPERS[name] IN
         IF requires_sela(scraper_class) /\ ~TruthyStr(key)
         THEN [st EXCEPT !.log = Append(@, [warning |-> "requires Sela API key", name |-> name])]
         ELSE [st EXCEPT !.scrapers = Append(@, new_scraper(scraper_class, key))]

\* The whole loop, from the empty _scrapers list set by __init__.
RECURSIVE init_scrapers_from(_, _, _, _)
init_scrapers_from(st, enabled, i, key) ==
    IF i > Len(enabled) \/ st.error # None THEN st
    ELSE init_scrapers_from(init_scrapers_step(st, enabled[i], key), enabled, i + 1, key)

init_scrapers(enabled, key) ==
    init_scrapers_from([scrapers |-> <<>>, log |-> <<>>, error |-> None], enabled, 1, key)

\* TrendScraper.list_enabled_scrapers.
list_enabled_scrapers(ss) == [i \in 1..Len(ss) |-> scraper_name(ss[i].cls)]

\* Every identifier list of at most n identifiers.
IdentifierLists(n) == UNION {[1..k -> Identifiers] : k \in 0..n}

\* TrendScraper.__init__ up to the call of _init_scrapers.
RegistryInit ==
    /\ \E arg \in {None} \cup {Some(l) : l \in IdentifierLists(MaxEnabled)} :
           enabled_scrapers = enabled_or_default(arg)
    /\ sela_api_key \in ApiKeys
    /\ scrapers = <<>>
    /\ init_i = 1
    /\ init_log = <<>>
    /\ init_error = None
    /\ FormatIdle
    /\ ParseIdle
    /\ FetchIdle
    /\ ServiceIdle

\* _init_scrapers: one iteration of `for name in self.enabled_scrapers`.
InitScrapersStep ==
    /\ init_i <= Len(enabled_scrapers)
    /\ init_error = None
    /\ LET st == init_scrapers_step([scrapers |-> scrapers, log |-> init_log, error |-> init_error],
                                    enabled_scrapers[init_i], sela_api_key)
       IN /\ scrapers' = st.scrapers
          /\ init_log' = st.log
          /\ init_error' = st.error
    /\ init_i' = init_i + 1
    /\ UNCHANGED <<enabled_scrapers, sela_api_key, notRegVars>>

RegistryNext == InitScrapersStep

SpecRegistry == RegistryInit /\ [][RegistryNext]_vars

(***************************************************************************)
(* Claims about the registry, checked under SpecRegistry.                  *)
(***************************************************************************)
\* The positions among the first n identifiers whose source is constructed:
\* registered, and not credential-requiring while the credential is absent or empty.
KeptPositions(enabled, key, n) ==
    {i \in 1..n : /\ enabled[i] \in DOMAIN AVAILABLE_SCRAPERS
                  /\ (requires_sela(AVAILABLE_SCRAPERS[enabled[i]]) => (key # None /\ key # Some("")))}

\* C5: when no Sela credential is supplied (absent or the empty string), the
\* list of instantiated sources never holds a source whose class has
\* requires_sela set, whatever the enabled-identifier list is.
C5_NoCredentialNoSelaSource ==
    (sela_api_key = None \/ sela_api_key = Some(""))
        => \A i \in 1..Len(scrapers) : ~requires_sela(scrapers[i].cls)

\* C5's case: the loop has finished over a list naming "twitter" with an empty
\* credential, and a source that needs no credential was constructed.
C5_Witness ==
    /\ init_i > Len(enabled_scrapers)
    /\ sela_api_key = Some("")
    /\ \E i \in 1..Len(enabled_scrapers) : enabled_scrapers[i] = "twitter"
    /\ Len(scrapers) >= 1

\* C6: after the first n identifiers have been processed, the instantiated
\* sources are exactly those identifiers with the unknown ones and the
\* credential-less credential-requiring ones removed, in the input's relative
\* order; every skipped identifier left one warning, an unknown identifier an
\* "unknown scraper" warning naming it, and no error ended the loop.
C6_InitScrapersIsOrderedFilter ==
    LET n == init_i - 1
        kept == KeptPositions(enabled_scrapers, sela_api_key, n)
    IN /\ init_error = None
       /\ Len(scrapers) = Cardinality(kept)
       /\ \A i \in kept :
              scrapers[Cardinality({j \in kept : j <= i})].cls = AVAILABLE_SCRAPERS[enabled_scrapers[i]]
       /\ Len(init_log) = n - Cardinality(kept)
       /\ \A i \in 1..n :
              enabled_scrapers[i] \notin DOMAIN AVAILABLE_SCRAPERS
                  => \E k \in 1..Len(init_log) :
                         init_log[k] = [warning |-> "unknown scraper", name |-> enabled_scrapers[i]]
       /\ Len(list_enabled_scrapers(scrapers)) = Cardinality(kept)

\* C6's case: a finished loop over a list that is not in registry order and
\* holds an unknown identifier between two known ones.
C6_Witness ==
    /\ init_i > Len(enabled_scrapers)
    /\ enabled_scrapers = <<"github", "reddit", "twitter">>
    /\ list_enabled_scrapers(scrapers) = <<"GitHub", "Twitter/X">>

(***************************************************************************)
(* Text and TrendItem.                                                     *)
(*   A text is modelled by its parts (id, a sequence of tokens) and its    *)
(*   length in characters, so that a slice text[:n] and a concatenation    *)
(*   are values other than the texts they are made from.                   *)
(***************************************************************************)
Str(id, len) == [id |-> id, len |-> len]

\* ""
EmptyStr == Str(<<>>, 0)

\* a + b, f"{a}{b}"
Concat(a, b) == Str(a.id \o b.id, a.len + b.len)

\* text[:n]
Prefix(text, n) == [text EXCEPT !.len = Min(@, n)]

\* Python truthiness of an optional text: None and "" are falsy.
TruthyText(o) == o # None /\ Val(o).len > 0

\* The dataclass TrendItem.
TrendItem(source, title, url, score, description) ==
    [source |-> source, title |-> title, url |-> url, score |-> score, description |-> description]

(***************************************************************************)
(* TrendAnalyzer._format_trends.                                           *)
(***************************************************************************)
FORMAT_LIMIT == 10
DESCRIPTION_LIMIT == 100

\* The first loop: `grouped`, a dict in insertion order, as a sequence of
\* [source, items] entries.
RECURSIVE group_trends(_, _)
group_trends(trends, grouped) ==
    IF trends = <<>> THEN grouped
    ELSE LET trend == Head(trends)
             known == \E k \in 1..Len(grouped) : grouped[k].source = trend.source
             opened == IF known THEN grouped
                       ELSE Append(grouped, [source |-> trend.source, items |-> <<>>])
             entry == CHOOSE k \in 1..Len(opened) : opened[k].source = trend.source
             added == [opened EXCEPT ![entry].items = Append(@, trend)]
         IN group_trends(Tail(trends), added)

\* The lines of the digest: "### {source}", "- {title}{score_str}{desc_str}", "".
heading_line(source) ==
    [kind |-> "heading", source |-> Some(source), title |-> None, score_str |-> None, desc_str |-> None]

item_line(item) ==
    [kind |-> "item", source |-> None, title |-> Some(item.title),
     score_str |-> IF TruthyInt(item.score) THEN item.score ELSE None,
     desc_str |-> IF TruthyText(item.description)
                  THEN Some(Prefix(Val(item.description), DESCRIPTION_LIMIT))
                  ELSE None]

blank_line ==
    [kind |-> "blank", source |-> None, title |-> None, score_str |-> None, desc_str |-> None]

\* The inner loop of the second loop, for one entry of `grouped`.
group_lines_uncapped(group) ==
    <<heading_line(group.source)>>
        \o [i \in 1..Len(group.items) |-> item_line(group.items[i])]
        \o <<blank_line>>

group_lines(group) ==
    <<heading_line(group.source)>>
        \o [i \in 1..Len(Take(group.items, FORMAT_LIMIT)) |-> item_line(group.items[i])]
        \o <<blank_line>>

RECURSIVE format_groups(_)
format_groups(grouped) ==
    IF grouped = <<>> THEN <<>>
    ELSE group_lines(Head(grouped)) \o format_groups(Tail(grouped))

\* _format_trends: the list `lines` that "\n".join renders.
format_trends(trends) == format_groups(group_trends(trends, <<>>))

\* The source labels of the inputs: the repository source's name and the
\* social source's name qualified by a query.
Labels == {<<"GitHub">>, <<"Twitter/X", "AI agent">>}

\* The score and description of the i-th item of an input, by pattern: no
\* scores, scores cycling through 0, 1, 2, or scores descending from 100.
PatternScore(pattern, i) ==
    CASE pattern = "none" -> None
      [] pattern = "cycle" -> Some(i % 3)
      [] OTHER -> Some(100 - 5 * i)

PatternDescription(pattern, i) ==
    CASE pattern = "none" -> None
      [] pattern = "cycle" -> Some(EmptyStr)
      [] OTHER -> Some(Str(<<"about", ToString(i)>>, 40 * i))

Patterns == {"none", "cycle", "descending"}

\* A list of TrendItems with the given source labels, the i-th titled i.
TrendList(src, pattern) ==
    [i \in 1..Len(src) |-> TrendItem(src[i], Str(<<"item", ToString(i)>>, 10), Some(Str(<<"https://example.org">>, 19)),
                                     PatternScore(pattern, i), PatternDescription(pattern, i))]

\* Every list of at most MaxTrends TrendItems over Labels.
FormatInit ==
    /\ \E k \in 0..MaxTrends : \E src \in [1..k -> Labels], pattern \in Patterns :
           fmt_trends = TrendList(src, pattern)
    /\ fmt_out = None
    /\ RegistryIdle
    /\ ParseIdle
    /\ FetchIdle
    /\ ServiceIdle

\* The call self._format_trends(trends).
FormatTrends ==
    /\ fmt_out = None
    /\ fmt_out' = Some(format_trends(fmt_trends))
    /\ UNCHANGED <<fmt_trends, notFmtVars>>

FormatNext == FormatTrends

SpecFormat == FormatInit /\ [][FormatNext]_vars

(***************************************************************************)
(* Claims about the digest, checked under SpecFormat.                      *)
(***************************************************************************)
\* The positions of the input's items of one label, and the j-th of them.
LabelPositions(trends, label) == {i \in 1..Len(trends) : trends[i].source = label}

NthPosition(positions, j) == CHOOSE i \in positions : Cardinality({x \in positions : x <= i}) = j

\* C10: the digest holds one heading per distinct source label of the input,
\* each once and in order of first appearance; a heading is followed by the
\* lines of the first 10 items of its label at most, in input order, all of
\* them when the label has 10 or fewer, and then by a blank line; no other
\* item line exists, so an item beyond the 10th of its label never appears.
C10_DigestGroupsAndCaps ==
    fmt_out # None =>
        LET lines == Val(fmt_out)
            labels == {fmt_trends[i].source : i \in 1..Len(fmt_trends)}
            shown(label) == Min(Cardinality(LabelPositions(fmt_trends, label)), 10)
            headings(label) == {k \in 1..Len(lines) : lines[k] = heading_line(label)}
            first(label) == NthPosition(LabelPositions(fmt_trends, label), 1)
        IN /\ \A k \in 1..Len(lines) :
                  lines[k].kind = "heading" => Val(lines[k].source) \in labels
           /\ \A label \in labels : Cardinality(headings(label)) = 1
           /\ \A a, b \in labels :
                  first(a) < first(b)
                      => (CHOOSE k \in headings(a) : TRUE) < (CHOOSE k \in headings(b) : TRUE)
           /\ \A label \in labels :
                  LET h == CHOOSE k \in headings(label) : TRUE
                  IN /\ h + shown(label) + 1 <= Len(lines)
                     /\ \A j \in 1..shown(label) :
                            /\ lines[h + j].kind = "item"
                            /\ lines[h + j].title =
                                   Some(fmt_trends[NthPosition(LabelPositions(fmt_trends, label), j)].title)
                     /\ lines[h + shown(label) + 1] = blank_line
           /\ Cardinality({k \in 1..Len(lines) : lines[k].kind = "item"})
                  = Cardinality({i \in 1..Len(fmt_trends) :
                        Cardinality({x \in LabelPositions(fmt_trends, fmt_trends[i].source) : x <= i}) <= 10})

\* C10's case: a formatted input where one label has more than 10 items and
\* another, first seen later, has between 1 and 10.
C10_Witness ==
    /\ fmt_out # None
    /\ \E a, b \in Labels :
           /\ Cardinality(LabelPositions(fmt_trends, a)) > 10
           /\ Cardinality(LabelPositions(fmt_trends, b)) \in 1..10
           /\ fmt_trends[1].source = a
           /\ Len(Val(fmt_out)) = 10 + Cardinality(LabelPositions(fmt_trends, b)) + 4

\* C11: in the digest of a formatted input, the lines under the repository
\* source's heading are the items of that source in input order (the first
\* 10 at most), and each line carries the suffix "(score: N)" with N the
\* item's score exactly when the item has a score, 0 included; only an item
\* whose score is None has no suffix.
C11_ScoredItemsShowScore ==
    fmt_out # None =>
        LET lines == Val(fmt_out)
            label == <<scraper_name("GitHubScraper")>>
            positions == LabelPositions(fmt_trends, label)
            shown == Min(Cardinality(positions), 10)
        IN positions # {} =>
               \E h \in 1..Len(lines) :
                   /\ lines[h] = heading_line(label)
                   /\ h + shown <= Len(lines)
                   /\ \A j \in 1..shown :
                          LET item == fmt_trends[NthPosition(positions, j)]
                          IN /\ lines[h + j].kind = "item"
                             /\ lines[h + j].title = Some(item.title)
                             /\ lines[h + j].score_str = item.score

(***************************************************************************)
(* TrendAnalyzer.analyze_and_generate: the response and its parsing.       *)
(*   A JSON value is [t, v]: its Python type after json.loads and its      *)
(*   content. A response text is [syntax, value]: whether it is a JSON     *)
(*   document, and the value it encodes (or was meant to encode).          *)
(***************************************************************************)
JNull == [t |-> "NoneType", str |-> EmptyStr, int |-> 0, list |-> <<>>, dict |-> <<>>]
JStr(text) == [t |-> "str", str |-> text, int |-> 0, list |-> <<>>, dict |-> <<>>]
JInt(n) == [t |-> "int", str |-> EmptyStr, int |-> n, list |-> <<>>, dict |-> <<>>]
JList(xs) == [t |-> "list", str |-> EmptyStr, int |-> 0, list |-> xs, dict |-> <<>>]
JDict(f) == [t |-> "dict", str |-> EmptyStr, int |-> 0, list |-> <<>>, dict |-> f]

\* A one-token text.
Word(w) == Str(<<w>>, 1)

\* One optional key of a dict: nothing when the value is absent.
Key(k, o) == IF o = None THEN <<>> ELSE k :> Val(o)

\* json.loads(response.text)
json_loads(text) ==
    IF text = None THEN [ok |-> FALSE, error |-> "TypeError", value |-> JNull]
    ELSE IF Val(text).syntax # "json"
         THEN [ok |-> FALSE, error |-> "JSONDecodeError", value |-> JNull]
         ELSE [ok |-> TRUE, error |-> "", value |-> Val(text).value]

\* pydantic's validation of one element of `ideas` as an IdeaSuggestion.
IdeaStrFields == {"title", "description", "why_now", "difficulty", "first_step"}

valid_idea(x) ==
    /\ x.t = "dict"
    /\ \A k \in IdeaStrFields : k \in DOMAIN x.dict /\ x.dict[k].t = "str"
    /\ "tech_stack" \in DOMAIN x.dict
    /\ x.dict["tech_stack"].t = "list"
    /\ \A i \in 1..Len(x.dict["tech_stack"].list) : x.dict["tech_stack"].list[i].t = "str"

\* pydantic's validation of the keyword arguments as an AnalysisResult.
valid_result(data) ==
    /\ "trend_summary" \in DOMAIN data.dict
    /\ data.dict["trend_summary"].t = "str"
    /\ "ideas" \in DOMAIN data.dict
    /\ data.dict["ideas"].t = "list"
    /\ \A i \in 1..Len(data.dict["ideas"].list) : valid_idea(data.dict["ideas"].list[i])

\* The models built from validated input: the declared fields only.
IdeaSuggestion(x) ==
    [title |-> x.dict["title"].str, description |-> x.dict["description"].str,
     why_now |-> x.dict["why_now"].str, difficulty |-> x.dict["difficulty"].str,
     tech_stack |-> [i \in 1..Len(x.dict["tech_stack"].list) |-> x.dict["tech_stack"].list[i].str],
     first_step |-> x.dict["first_step"].str]

\* A construction that loses the first element of `ideas`.
AnalysisResult_dropping_first_idea(data) ==
    [trend_summary |-> data.dict["trend_summary"].str,
     ideas |-> [i \in 1..(Len(data.dict["ideas"].list) - 1) |-> IdeaSuggestion(data.dict["ideas"].list[i + 1])]]

AnalysisResult(data) ==
    [trend_summary |-> data.dict["trend_summary"].str,
     ideas |-> [i \in 1..Len(data.dict["ideas"].list) |-> IdeaSuggestion(data.dict["ideas"].list[i])]]

\* result.model_dump_json(): the JSON document of the declared fields of
\* the two models, each str field a JSON string, each list a JSON array.
dump_idea(idea) ==
    JDict(("title" :> JStr(idea.title)) @@ ("description" :> JStr(idea.description))
          @@ ("why_now" :> JStr(idea.why_now)) @@ ("difficulty" :> JStr(idea.difficulty))
          @@ ("tech_stack" :> JList([i \in 1..Len(idea.tech_stack) |-> JStr(idea.tech_stack[i])]))
          @@ ("first_step" :> JStr(idea.first_step)))

model_dump_json(result) ==
    Some([syntax |-> "json",
          value |-> JDict(("trend_summary" :> JStr(result.trend_summary))
                          @@ ("ideas" :> JList([i \in 1..Len(result.ideas) |-> dump_idea(result.ideas[i])])))])

\* What a call returns or raises.
Return(value) == [kind |-> "return", result |-> Some(value), error |-> None]
Raise(type, cause, raw) ==
    [kind |-> "raise", result |-> None, error |-> Some([type |-> type, cause |-> cause, raw |-> raw])]

\* AnalysisResult(**data): ** needs a mapping, then pydantic validates.
construct_result(data) ==
    IF data.t # "dict" THEN Raise("TypeError", "TypeError", None)
    ELSE IF ~valid_result(data) THEN Raise("ValidationError", "ValidationError", None)
    ELSE Return(AnalysisResult(data))

\* The try block: JSONDecodeError and TypeError become the ValueError
\* "Failed to parse Gemini response: {e}\nResponse: {response.text}"; any
\* other exception leaves the function as it is.
parse_response_catching_decode_error_only(text) ==
    LET loaded == json_loads(text)
        built == construct_result(loaded.value)
    IN IF ~loaded.ok
       THEN IF loaded.error = "JSONDecodeError"
            THEN Raise("ValueError", loaded.error, Some(text))
            ELSE Raise(loaded.error, loaded.error, None)
       ELSE IF built.kind = "raise" /\ Val(built.error).type = "TypeError"
            THEN Raise("ValueError", "TypeError", Some(text))
            ELSE built

parse_response(text) ==
    LET loaded == json_loads(text)
        built == construct_result(loaded.value)
    IN IF ~loaded.ok
       THEN Raise("ValueError", loaded.error, Some(text))
       ELSE IF built.kind = "raise" /\ Val(built.error).type \in {"JSONDecodeError", "TypeError"}
            THEN Raise("ValueError", Val(built.error).type, Some(text))
            ELSE built

\* analyze_and_generate: the awaited generate_content raises, or its
\* response is parsed.
analyze_and_generate(llm) ==
    IF llm.kind = "raise" THEN Raise("APIError", "APIError", None)
    ELSE parse_response(llm.text)

\* USER_PROMPT_TEMPLATE: "suggest 3 project ideas".
IDEAS_REQUESTED == 3

\* The elements a response may carry under `ideas`: well-formed ones (with a
\* difficulty inside and outside easy/medium/hard), one with a key missing
\* and one with a field of the wrong type.
IdeaValue(difficulty, tech_stack, first_step) ==
    JDict(("title" :> JStr(Word("t"))) @@ ("description" :> JStr(Word("d"))) @@ ("why_now" :> JStr(Word("w")))
          @@ ("difficulty" :> JStr(Word(difficulty))) @@ ("tech_stack" :> tech_stack)
          @@ Key("first_step", first_step))

IdeaValues ==
    {IdeaValue("easy", JList(<<JStr(Word("python"))>>), Some(JStr(Word("f")))),
     IdeaValue("extreme", JList(<<>>), Some(JStr(Word("f")))),
     IdeaValue("easy", JList(<<JStr(Word("python"))>>), None),
     IdeaValue("hard", JStr(Word("python")), Some(JStr(Word("f"))))}

\* The JSON documents a response may be: a dict with each of trend_summary,
\* ideas and an undeclared key absent, well-typed or ill-typed, and the
\* documents that are no dict.
SummaryValues == {None, Some(JStr(Word("summary"))), Some(JNull)}

IdeasValues ==
    {None, Some(JNull), Some(JStr(Word("ideas")))}
        \cup {Some(JList(xs)) : xs \in UNION {[1..k -> IdeaValues] : k \in 0..MaxIdeas}}

DictValues ==
    {JDict(Key("trend_summary", summary) @@ Key("ideas", ideas) @@ Key("note", note)) :
        summary \in SummaryValues, ideas \in IdeasValues, note \in {None, Some(JStr(Word("n")))}}

NonDictValues == {JNull, JStr(Word("text")), JList(<<>>), JList(<<JStr(Word("x"))>>)}

\* The texts of a response: None, "", a cut or fenced document, a document.
ResponseTexts ==
    {None, Some([syntax |-> "empty", value |-> JNull])}
        \cup {Some([syntax |-> syntax, value |-> value]) :
                 syntax \in {"truncated", "fenced", "json"}, value \in DictValues \cup NonDictValues}

LlmOutcomes ==
    {[kind |-> "raise", text |-> None]} \cup {[kind |-> "response", text |-> text] : text \in ResponseTexts}

ParseInit ==
    /\ llm_response \in {Some(llm) : llm \in LlmOutcomes}
    /\ parse_out = None
    /\ RegistryIdle
    /\ FormatIdle
    /\ FetchIdle
    /\ ServiceIdle

\* The call of analyze_and_generate on that outcome.
AnalyzeAndGenerate ==
    /\ llm_response # None
    /\ parse_out = None
    /\ parse_out' = Some(analyze_and_generate(Val(llm_response)))
    /\ UNCHANGED <<llm_response, notParseVars>>

ParseNext == AnalyzeAndGenerate

SpecParse == ParseInit /\ [][ParseNext]_vars

(***************************************************************************)
(* Claims about the response parsing, checked under SpecParse.             *)
(***************************************************************************)
\* The response came back and its text is no JSON document: missing, empty,
\* cut or fenced.
NotJsonResponse(llm) ==
    llm.kind = "response" /\ (llm.text = None \/ Val(llm.text).syntax # "json")

\* The response came back, its text is a JSON document, and the document is
\* not an AnalysisResult: no dict, a key missing, or a field of another type.
SchemaMismatchResponse(llm) ==
    /\ llm.kind = "response"
    /\ llm.text # None
    /\ Val(llm.text).syntax = "json"
    /\ ~(Val(llm.text).value.t = "dict" /\ valid_result(Val(llm.text).value))

\* The call raised the ValueError "Failed to parse Gemini response" carrying
\* the raw response text.
RaisedGenerationError(out, llm) ==
    /\ out.kind = "raise"
    /\ out.result = None
    /\ Val(out.error).type = "ValueError"
    /\ Val(out.error).cause \in {"JSONDecodeError", "TypeError"}
    /\ Val(out.error).raw = Some(llm.text)

\* C7: when the response text is not valid JSON (truncated, fenced, empty or
\* missing), analyze_and_generate raises the generation error that carries
\* the raw response text; it raises no other error and returns no result.
C7_MalformedTextRaisesGenerationError ==
    (parse_out # None /\ NotJsonResponse(Val(llm_response)))
        => RaisedGenerationError(Val(parse_out), Val(llm_response))

\* C7's case: the call has run on a response whose text is missing, and would
\* have run on a fenced document that is a valid AnalysisResult.
C7_Witness ==
    /\ parse_out # None
    /\ Val(llm_response).kind = "response"
    /\ Val(llm_response).text = None
    /\ Val(Val(parse_out).error).cause = "TypeError"
    /\ \E text \in ResponseTexts :
           /\ text # None
           /\ Val(text).syntax = "fenced"
           /\ Val(text).value.t = "dict"
           /\ valid_result(Val(text).value)
           /\ RaisedGenerationError(parse_response(text), [kind |-> "response", text |-> text])

\* C8 as claimed: when the response is valid JSON that does not match the
\* AnalysisResult schema, analyze_and_generate raises the same generation
\* error as for a decode failure, carrying the raw response text.
C8_SchemaMismatchRaisesGenerationError ==
    (parse_out # None /\ SchemaMismatchResponse(Val(llm_response)))
        => RaisedGenerationError(Val(parse_out), Val(llm_response))

\* The response is a JSON document that is a well-formed AnalysisResult.
WellFormedResponse(llm) ==
    /\ llm.kind = "response"
    /\ llm.text # None
    /\ Val(llm.text).syntax = "json"
    /\ Val(llm.text).value.t = "dict"
    /\ valid_result(Val(llm.text).value)

\* The result has the field values of the document, field by field, and no
\* other field.
SameFieldValues(result, doc) ==
    /\ DOMAIN result = {"trend_summary", "ideas"}
    /\ result.trend_summary = doc.dict["trend_summary"].str
    /\ Len(result.ideas) = Len(doc.dict["ideas"].list)
    /\ \A i \in 1..Len(result.ideas) :
           LET idea == result.ideas[i]
               x == doc.dict["ideas"].list[i].dict
           IN /\ DOMAIN idea = IdeaStrFields \cup {"tech_stack"}
              /\ \A k \in IdeaStrFields : idea[k] = x[k].str
              /\ Len(idea.tech_stack) = Len(x["tech_stack"].list)
              /\ \A j \in 1..Len(idea.tech_stack) : idea.tech_stack[j] = x["tech_stack"].list[j].str

C12_ResultHasRequestedIdeas ==
    (parse_out # None /\ Val(parse_out).kind = "return")
        => Len(Val(Val(parse_out).result).ideas) = IDEAS_REQUESTED

(***************************************************************************)
(* The sources' HTTP calls.                                                *)
(*   An exchange's outcome is [kind, status, json, body]: the request      *)
(*   raised (network error, timeout), or a response came back with a       *)
(*   status code and a body that resp.json() decodes to `body` or fails    *)
(*   to decode.                                                            *)
(***************************************************************************)
HttpRaise == [kind |-> "raise", status |-> 0, json |-> FALSE, body |-> JNull]
HttpResponse(status, body) == [kind |-> "response", status |-> status, json |-> TRUE, body |-> body]
HttpNotJson(status) == [kind |-> "response", status |-> status, json |-> FALSE, body |-> JNull]

\* dict.get(key, default)
get(d, key, default) == IF key \in DOMAIN d.dict THEN d.dict[key] ELSE default

\* A decoded value as the optional text or integer a TrendItem field holds.
opt_text(x) == IF x.t = "str" THEN Some(x.str) ELSE None
opt_int(x) == IF x.t = "int" THEN Some(x.int) ELSE None

\* A printed message: who printed it, about which query, which error.
LogEntry(source, query, error) == [source |-> source, query |-> query, error |-> error]

\* BaseScraper._sela_scrape: [raised, value, log, requests].
sela_scrape(key, outcome) ==
    IF ~TruthyStr(key)
    THEN [raised |-> None, value |-> JDict(<<>>), log |-> <<>>, requests |-> 0]
    ELSE IF outcome.kind = "raise"
    THEN [raised |-> Some("HTTPError"), value |-> JNull, log |-> <<>>, requests |-> 1]
    ELSE LET printed == IF outcome.status # 200
                        THEN <<LogEntry("Sela API", None, Some(ToString(outcome.status)))>>
                        ELSE <<>>
         IN IF ~outcome.json
            THEN [raised |-> Some("JSONDecodeError"), value |-> JNull, log |-> printed, requests |-> 1]
            ELSE [raised |-> None, value |-> outcome.body, log |-> printed, requests |-> 1]

(***************************************************************************)
(* TwitterScraper.fetch.                                                   *)
(***************************************************************************)
TITLE_LIMIT == 100

XCom == Str(<<"https://x.com">>, 13)

\* tweet_url.startswith("http")
startswith_http(text) == text.id # <<>> /\ text.id[1] \in {"https://x.com", "http://x.com"}

\* f"{self.name} ({query})"
twitter_source(query) == <<scraper_name("TwitterScraper"), query>>

\* The body of `for item in posts[:self.post_count]`: the TrendItem, or the
\* exception raised while building it.
twitter_item(item, query) ==
    IF item.t # "dict" THEN [error |-> Some("AttributeError"), item |-> None]
    ELSE LET got == get(item, "tweetUrl", JStr(EmptyStr))
             tweet_url == IF got.t = "str" /\ got.str.len > 0 /\ ~startswith_http(got.str)
                          THEN JStr(Concat(XCom, got.str))
                          ELSE got
             content == get(item, "content", JStr(EmptyStr))
             likes == opt_int(get(item, "likesCount", JNull))
             views == opt_int(get(item, "viewsCount", JNull))
         IN IF content.t # "str" THEN [error |-> Some("TypeError"), item |-> None]
            ELSE [error |-> None,
                  item |-> Some(TrendItem(twitter_source(query),
                                          Prefix(content.str, TITLE_LIMIT),
                                          opt_text(tweet_url),
                                          IF TruthyInt(likes) THEN likes ELSE views,
                                          opt_text(get(item, "content", JNull))))]

\* The inner for loop: appends to all_items until a post raises.
RECURSIVE map_posts(_, _, _)
map_posts(posts, query, items) ==
    IF posts = <<>> THEN [items |-> items, raised |-> None]
    ELSE LET built == twitter_item(Head(posts), query)
         IN IF built.error # None THEN [items |-> items, raised |-> built.error]
            ELSE map_posts(Tail(posts), query, Append(items, Val(built.item)))

\* One iteration of `for query in self.search_queries`, try and except:
\* [all_items, log, raised, requests].
twitter_query_failed(self, items, query, printed, error, requests) ==
    [all_items |-> items,
     log |-> printed \o <<LogEntry(scraper_name(self.cls), Some(query), Some(error))>>,
     raised |-> Some(error), requests |-> requests]

twitter_query_dropping_items_on_error(self, items, query, outcome) ==
    LET data == sela_scrape(self.sela_api_key, outcome)
        inner == get(data.value, "data", JDict(<<>>))
        posts == get(inner, "result", JList(<<>>))
        mapped == map_posts(Take(posts.list, self.post_count), query, items)
    IN IF data.raised # None \/ data.value.t # "dict" \/ inner.t # "dict" \/ posts.t # "list"
          \/ mapped.raised # None
       THEN twitter_query_failed(self, <<>>, query, data.log, "Exception", data.requests)
       ELSE [all_items |-> mapped.items, log |-> data.log, raised |-> None,
             requests |-> data.requests]

\* An iteration that maps every post of the result, without the
\* [:self.post_count] slice.
twitter_query_unsliced(self, items, query, outcome) ==
    LET data == sela_scrape(self.sela_api_key, outcome)
        inner == get(data.value, "data", JDict(<<>>))
        posts == get(inner, "result", JList(<<>>))
        mapped == map_posts(posts.list, query, items)
    IN IF data.raised # None
       THEN twitter_query_failed(self, items, query, data.log, Val(data.raised), data.requests)
       ELSE IF data.value.t # "dict" \/ inner.t # "dict"
       THEN twitter_query_failed(self, items, query, data.log, "AttributeError", data.requests)
       ELSE IF posts.t # "list"
       THEN twitter_query_failed(self, items, query, data.log, "TypeError", data.requests)
       ELSE IF mapped.raised # None
       THEN twitter_query_failed(self, mapped.items, query, data.log, Val(mapped.raised),
                                 data.requests)
       ELSE [all_items |-> mapped.items, log |-> data.log, raised |-> None,
             requests |-> data.requests]

twitter_query(self, items, query, outcome) ==
    LET data == sela_scrape(self.sela_api_key, outcome)
        inner == get(data.value, "data", JDict(<<>>))
        posts == get(inner, "result", JList(<<>>))
        mapped == map_posts(Take(posts.list, self.post_count), query, items)
    IN IF data.raised # None
       THEN twitter_query_failed(self, items, query, data.log, Val(data.raised), data.requests)
       ELSE IF data.value.t # "dict" \/ inner.t # "dict"
       THEN twitter_query_failed(self, items, query, data.log, "AttributeError", data.requests)
       ELSE IF posts.t # "list"
       THEN twitter_query_failed(self, items, query, data.log, "TypeError", data.requests)
       ELSE IF mapped.raised # None
       THEN twitter_query_failed(self, mapped.items, query, data.log, Val(mapped.raised),
                                 data.requests)
       ELSE [all_items |-> mapped.items, log |-> data.log, raised |-> None,
             requests |-> data.requests]

(***************************************************************************)
(* GitHubScraper.fetch.                                                    *)
(***************************************************************************)
GITHUB_LIMIT == 10

RepoKeys == {"full_name", "language", "html_url", "stargazers_count"}

\* The element of the list comprehension for one repo, or the exception.
github_item(repo) ==
    IF repo.t # "dict" THEN [error |-> Some("TypeError"), item |-> None]
    ELSE IF ~(RepoKeys \subseteq DOMAIN repo.dict) THEN [error |-> Some("KeyError"), item |-> None]
    ELSE LET language == opt_text(repo.dict["language"])
         IN [error |-> None,
             item |-> Some(TrendItem(<<scraper_name("GitHubScraper")>>,
                                     Concat(Concat(repo.dict["full_name"].str, Word(" - ")),
                                            IF TruthyText(language) THEN Val(language)
                                            ELSE Word("Unknown")),
                                     opt_text(repo.dict["html_url"]),
                                     opt_int(repo.dict["stargazers_count"]),
                                     opt_text(get(repo, "description", JNull))))]

\* The list comprehension over data.get("items", [])[:10].
RECURSIVE map_repos(_, _)
map_repos(repos, items) ==
    IF repos = <<>> THEN [items |-> items, raised |-> None]
    ELSE LET built == github_item(Head(repos))
         IN IF built.error # None THEN [items |-> items, raised |-> built.error]
            ELSE map_repos(Tail(repos), Append(items, Val(built.item)))

\* fetch, try and except: [result, log, raised], raised being the exception
\* the except clause caught.
github_failed(error) ==
    [result |-> Return(<<>>),
     log |-> <<LogEntry(scraper_name("GitHubScraper"), None, Some(error))>>,
     raised |-> Some(error)]

github_fetch_catching_http_errors_only(outcome) ==
    LET data == outcome.body
        repos == get(data, "items", JList(<<>>))
        mapped == map_repos(Take(repos.list, GITHUB_LIMIT), <<>>)
    IN IF outcome.kind = "raise" THEN github_failed("HTTPError")
       ELSE IF ~outcome.json
       THEN [result |-> Raise("JSONDecodeError", "JSONDecodeError", None), log |-> <<>>,
             raised |-> None]
       ELSE IF data.t # "dict" THEN github_failed("AttributeError")
       ELSE IF repos.t # "list" THEN github_failed("TypeError")
       ELSE IF mapped.raised # None THEN github_failed(Val(mapped.raised))
       ELSE [result |-> Return(mapped.items), log |-> <<>>, raised |-> None]

\* A fetch without the [:10] slice.
github_fetch_uncapped(outcome) ==
    LET data == outcome.body
        repos == get(data, "items", JList(<<>>))
        mapped == map_repos(repos.list, <<>>)
    IN IF outcome.kind = "raise" THEN github_failed("HTTPError")
       ELSE IF ~outcome.json THEN github_failed("JSONDecodeError")
       ELSE IF data.t # "dict" THEN github_failed("AttributeError")
       ELSE IF repos.t # "list" THEN github_failed("TypeError")
       ELSE IF mapped.raised # None THEN github_failed(Val(mapped.raised))
       ELSE [result |-> Return(mapped.items), log |-> <<>>, raised |-> None]

\* GitHubScraper.fetch: the GET, resp.json(), the list comprehension, and the
\* except clause around them.
github_fetch(outcome) ==
    LET data == outcome.body
        repos == get(data, "items", JList(<<>>))
        mapped == map_repos(Take(repos.list, GITHUB_LIMIT), <<>>)
    IN IF outcome.kind = "raise" THEN github_failed("HTTPError")
       ELSE IF ~outcome.json THEN github_failed("JSONDecodeError")
       ELSE IF data.t # "dict" THEN github_failed("AttributeError")
       ELSE IF repos.t # "list" THEN github_failed("TypeError")
       ELSE IF mapped.raised # None THEN github_failed(Val(mapped.raised))
       ELSE [result |-> Return(mapped.items), log |-> <<>>, raised |-> None]

(***************************************************************************)
(* The upstream responses a fetch may meet.                                *)
(***************************************************************************)
\* Posts of a Sela result: complete with an absolute link; a relative link,
\* a long text and no likes; nothing but a null link; a null text.
PostValues ==
    {JDict(("tweetUrl" :> JStr(Str(<<"https://x.com", "/a/status/1">>, 24)))
           @@ ("content" :> JStr(Str(<<"post a">>, 40)))
           @@ ("likesCount" :> JInt(7)) @@ ("viewsCount" :> JInt(9))),
     JDict(("tweetUrl" :> JStr(Str(<<"/b/status/2">>, 11)))
           @@ ("content" :> JStr(Str(<<"post b">>, 140)))
           @@ ("likesCount" :> JInt(0)) @@ ("viewsCount" :> JInt(9))),
     JDict("tweetUrl" :> JNull),
     JDict(("tweetUrl" :> JStr(Str(<<"/d/status/4">>, 11))) @@ ("content" :> JNull))}

SelaBody(posts) == JDict("data" :> JDict("result" :> JList(posts)))

SelaErrorBody == JDict("error" :> JStr(Word("upstream failure")))

\* More posts than post_count may come back; a result holds no post twice.
MaxPosts == PostCount + 1

PostLists ==
    UNION {{posts \in [1..k -> PostValues] : \A i, j \in 1..k : posts[i] = posts[j] => i = j} :
              k \in 0..MaxPosts}

SelaOutcomes ==
    {HttpRaise, HttpNotJson(200), HttpNotJson(502),
     HttpResponse(200, SelaErrorBody), HttpResponse(200, JDict("data" :> JNull)),
     HttpResponse(200, JList(<<>>)),
     HttpResponse(500, SelaErrorBody),
     HttpResponse(500, SelaBody(<<CHOOSE post \in PostValues : "likesCount" \in DOMAIN post.dict
                                                               /\ post.dict["likesCount"].int = 7>>))}
        \cup {HttpResponse(200, SelaBody(posts)) : posts \in PostLists}

\* The i-th repository of a search result, by stars descending; `bad` is the
\* position of an entry without html_url and `nolang` of one whose language
\* is null (0: none).
RepoValue(i, bad, nolang) ==
    JDict(("full_name" :> JStr(Str(<<"owner/repo", ToString(i)>>, 12)))
          @@ ("language" :> IF i = nolang THEN JNull ELSE JStr(Word("Python")))
          @@ Key("html_url", IF i = bad THEN None
                             ELSE Some(JStr(Str(<<"https://github.com/owner/repo", ToString(i)>>, 31))))
          @@ ("stargazers_count" :> JInt(100 - 5 * i))
          @@ Key("description", IF i % 2 = 0 THEN None ELSE Some(JStr(Str(<<"about", ToString(i)>>, 60 * i)))))

GitHubOutcomes ==
    {HttpRaise, HttpNotJson(200), HttpNotJson(502),
     HttpResponse(403, JDict("message" :> JStr(Word("API rate limit exceeded")))),
     HttpResponse(200, JList(<<>>)),
     HttpResponse(200, JDict("items" :> JNull))}
        \cup {HttpResponse(status, JDict("items" :> JList([i \in 1..n |-> RepoValue(i, bad, nolang)]))) :
                 status \in {200, 206}, n \in 0..MaxRepos, bad \in 0..2, nolang \in 0..2}
        \cup {HttpResponse(422, JDict("items" :> JList([i \in 1..1 |-> RepoValue(i, 0, 0)])))}

(***************************************************************************)
(* One call of fetch() on a scraper.                                       *)
(***************************************************************************)
\* The scrapers a call may be made on: the repository source, and the social
\* source with any credential and its first n queries.
FetchScrapers ==
    {new_scraper("GitHubScraper", key) : key \in ApiKeys}
        \cup {[new_scraper("TwitterScraper", key) EXCEPT
                   !.search_queries = Take(DEFAULT_QUERIES, n), !.post_count = PostCount] :
                 key \in ApiKeys, n \in 1..MaxQueries}

FetchInit ==
    /\ fetch_scraper \in FetchScrapers
    /\ fetch_pc = "start"
    /\ fetch_qi = 1
    /\ all_items = <<>>
    /\ fetch_log = <<>>
    /\ fetch_http = <<>>
    /\ fetch_result = None
    /\ RegistryIdle
    /\ FormatIdle
    /\ ParseIdle
    /\ ServiceIdle

\* TwitterScraper.fetch up to the loop: `if not self.sela_api_key: return []`.
TwitterFetchStart ==
    /\ fetch_pc = "start"
    /\ fetch_scraper.cls = "TwitterScraper"
    /\ IF ~TruthyStr(fetch_scraper.sela_api_key)
       THEN /\ fetch_result' = Some(Return(<<>>))
            /\ fetch_pc' = "done"
       ELSE /\ fetch_result' = fetch_result
            /\ fetch_pc' = "loop"
    /\ UNCHANGED <<fetch_scraper, fetch_qi, all_items, fetch_log, fetch_http, notFetchVars>>

\* One iteration of the loop over self.search_queries.
TwitterQuery(outcome) ==
    /\ fetch_pc = "loop"
    /\ fetch_qi <= Len(fetch_scraper.search_queries)
    /\ LET query == fetch_scraper.search_queries[fetch_qi]
           done == twitter_query(fetch_scraper, all_items, query, outcome)
       IN /\ all_items' = done.all_items
          /\ fetch_log' = fetch_log \o done.log
          /\ fetch_http' = Append(fetch_http, [query |-> Some(query), outcome |-> outcome,
                                               raised |-> done.raised, requests |-> done.requests])
    /\ fetch_qi' = fetch_qi + 1
    /\ UNCHANGED <<fetch_scraper, fetch_pc, fetch_result, notFetchVars>>

\* `return all_items` after the loop.
TwitterReturn ==
    /\ fetch_pc = "loop"
    /\ fetch_qi > Len(fetch_scraper.search_queries)
    /\ fetch_result' = Some(Return(all_items))
    /\ fetch_pc' = "done"
    /\ UNCHANGED <<fetch_scraper, fetch_qi, all_items, fetch_log, fetch_http, notFetchVars>>

\* GitHubScraper.fetch.
GitHubFetch(outcome) ==
    /\ fetch_pc = "start"
    /\ fetch_scraper.cls = "GitHubScraper"
    /\ LET done == github_fetch(outcome)
       IN /\ fetch_result' = Some(done.result)
          /\ fetch_log' = fetch_log \o done.log
          /\ fetch_http' = Append(fetch_http, [query |-> None, outcome |-> outcome,
                                               raised |-> done.raised, requests |-> 1])
    /\ fetch_pc' = "done"
    /\ UNCHANGED <<fetch_scraper, fetch_qi, all_items, notFetchVars>>

FetchNext ==
    \/ TwitterFetchStart
    \/ \E outcome \in SelaOutcomes : TwitterQuery(outcome)
    \/ TwitterReturn
    \/ \E outcome \in GitHubOutcomes : GitHubFetch(outcome)

SpecFetch == FetchInit /\ [][FetchNext]_vars

(***************************************************************************)
(* Claims about one call of fetch(), checked under SpecFetch.              *)
(***************************************************************************)
\* The exchanges of the call whose handling ended in the except clause.
FailedExchanges == {k \in 1..Len(fetch_http) : fetch_http[k].raised # None}

\* The failure of exchange k was printed with the scraper's name and the error.
FailureLogged(k) ==
    \E e \in 1..Len(fetch_log) :
        /\ fetch_log[e].source = scraper_name(fetch_scraper.cls)
        /\ fetch_log[e].error = fetch_http[k].raised
        /\ fetch_log[e].query = fetch_http[k].query

\* The posts a Sela response body carries under data.result.
BodyPosts(body) == get(get(body, "data", JDict(<<>>)), "result", JList(<<>>)).list

\* The items of a list carrying one source label, in the list's order.
ItemsOf(items, source) ==
    LET HasSource(item) == item.source = source
    IN SelectSeq(items, HasSource)

C4_QueryFailuresAreIsolated ==
    (fetch_result # None /\ fetch_scraper.cls = "TwitterScraper"
     /\ TruthyStr(fetch_scraper.sela_api_key))
        => LET queries == fetch_scraper.search_queries
               items == Val(Val(fetch_result).result)
               QueryIndex(item) == CHOOSE q \in 1..Len(queries) : item.source = twitter_source(queries[q])
           IN /\ Len(fetch_http) = Len(queries)
              /\ \A q \in 1..Len(queries) : fetch_http[q].query = Some(queries[q])
              /\ \A q \in 1..Len(queries) :
                     fetch_http[q].raised = None
                         => LET posts == Take(BodyPosts(fetch_http[q].outcome.body),
                                              fetch_scraper.post_count)
                            IN ItemsOf(items, twitter_source(queries[q]))
                                   = [j \in 1..Len(posts) |-> Val(twitter_item(posts[j], queries[q]).item)]
              /\ \A i, j \in 1..Len(items) : i < j => QueryIndex(items[i]) <= QueryIndex(items[j])
              /\ \A q \in FailedExchanges : FailureLogged(q)

\* C4's case: the first query yielded items, the last query failed, and the
\* call returned.
C4_Witness ==
    /\ fetch_result # None
    /\ fetch_scraper.cls = "TwitterScraper"
    /\ Len(fetch_http) = MaxQueries
    /\ fetch_http[1].raised = None
    /\ BodyPosts(fetch_http[1].outcome.body) # <<>>
    /\ fetch_http[MaxQueries].raised # None
    /\ Len(Val(Val(fetch_result).result)) >= 1

(***************************************************************************)
(* DailyIdeaService: src/main.py, with TrendScraper.get_all_trends and     *)
(* IdeaBot's send functions.                                               *)
(*   Two coroutines run _generate_and_send_ideas: _scheduled_job and the   *)
(*   /idea handler. Each await is a step, so the two interleave, and each  *)
(*   fetch of a round is a task of its own.                                *)
(***************************************************************************)
\* What asyncio.gather(*tasks, return_exceptions=True) holds for one task:
\* the list fetch returned, the Exception it raised, the CancelledError (a
\* BaseException) of a cancelled fetch, or a return value that is no list.
Pending == [kind |-> "pending", items |-> <<>>]
ListResult(items) == [kind |-> "list", items |-> items]
ExceptionResult == [kind |-> "exception", items |-> <<>>]
CancelledResult == [kind |-> "cancelled", items |-> <<>>]
OtherResult == [kind |-> "other", items |-> <<>>]

\* The label a scraper of the class puts on its items.
source_label(cls) ==
    IF cls = "TwitterScraper" THEN twitter_source(DEFAULT_QUERIES[1]) ELSE <<scraper_name(cls)>>

\* The n items a source returns to the fetch call of one round, told apart
\* by their position and by the call they answer.
SourceItems(cls, n, call) ==
    [j \in 1..n |-> TrendItem(source_label(cls), Str(<<scraper_name(cls), ToString(j), call>>, 10),
                              Some(Word("url")), None, None)]

\* The outcomes of BaseScraper.fetch of one source, as gather reports them:
\* the empty list, a list of MaxItems items, and the three other outcomes.
FetchResults(cls, call) ==
    {ListResult(SourceItems(cls, n, call)) : n \in {0, MaxItems}}
        \cup {ExceptionResult, CancelledResult, OtherResult}

\* A gather without return_exceptions=True, which ends on the first
\* exception of a task.
gather_ready_on_first_exception(ts) ==
    \/ \A i \in 1..Len(ts) : ts[i].kind # "pending"
    \/ \E i \in 1..Len(ts) : ts[i].kind = "exception"

\* gather wakes get_all_trends when every task is done.
gather_ready(ts) == \A i \in 1..Len(ts) : ts[i].kind # "pending"

\* A loop that puts each list in front of all_trends instead of behind it.
RECURSIVE collect_results_reversed(_, _, _, _)
collect_results_reversed(ss, results, i, acc) ==
    IF i > Len(results) THEN acc
    ELSE collect_results_reversed(ss, results, i + 1,
            IF results[i].kind = "list"
            THEN [acc EXCEPT !.all_trends = results[i].items \o @]
            ELSE IF results[i].kind = "exception"
                 THEN [acc EXCEPT !.log = Append(@, [print |-> "Error in", name |-> scraper_name(ss[i].cls)])]
                 ELSE acc)

\* An all_trends kept on the TrendScraper instead of built by each call: a
\* call starts from what the other round's call left.
new_all_trends_kept_on_instance(r) ==
    LET other == CHOOSE q \in Triggers : q # r
    IN IF run_trends[other] = None THEN <<>> ELSE Val(run_trends[other])

\* get_all_trends, `all_trends = []`: a list of the call's own.
new_all_trends(r) == <<>>

\* get_all_trends, `for i, result in enumerate(results)`: a list extends
\* all_trends, an Exception is printed with the scraper's name, anything
\* else is passed over.
RECURSIVE collect_results(_, _, _, _)
collect_results(ss, results, i, acc) ==
    IF i > Len(results) THEN acc
    ELSE collect_results(ss, results, i + 1,
            IF results[i].kind = "list"
            THEN [acc EXCEPT !.all_trends = @ \o results[i].items]
            ELSE IF results[i].kind = "exception"
                 THEN [acc EXCEPT !.log = Append(@, [print |-> "Error in", name |-> scraper_name(ss[i].cls)])]
                 ELSE acc)

\* A round that never takes the `if not trends` branch.
not_trends_never(ts) == FALSE

\* `if not trends`: an empty list is falsy.
not_trends(ts) == ts = <<>>

\* The texts of main.py's send_error calls: "could not collect trends"
\* (main.py:91, in Korean) and the prefix of a failed scheduled job
\* (main.py:109, in Korean).
NOTHING_COLLECTED == "nothing collected"
SCHEDULED_JOB_FAILED == "scheduled job failed: "

\* The messages: the /idea acknowledgement, IdeaBot.send_error(text + str(e))
\* and IdeaBot.send_ideas(result).
AckMessage == [kind |-> "ack", text |-> "", error |-> None, result |-> None]
ErrorMessage(text, e) == [kind |-> "error", text |-> text, error |-> e, result |-> None]
IdeasMessage(result) == [kind |-> "ideas", text |-> "", error |-> None, result |-> Some(result)]

\* The exception of a send_message call that fails.
TelegramError == [type |-> "TelegramError", cause |-> "TelegramError", raw |-> None]

\* The configurations of the process: the default sources with a
\* credential, without one, and Twitter alone without one.
ServiceConfigs ==
    {[enabled |-> None, key |-> Some("sela-key")],
     [enabled |-> None, key |-> None],
     [enabled |-> Some(<<"twitter">>), key |-> Some("")]}

\* The responses of the model a round may meet: the request fails, the text
\* is missing, fenced, a document that is no AnalysisResult, and a document
\* with the three ideas asked for or with one.

ResultDocument(n) ==
    JDict(("trend_summary" :> JStr(Word("summary")))
          @@ ("ideas" :> JList([i \in 1..n |->
                  IdeaValue("easy", JList(<<JStr(Word("python"))>>), Some(JStr(Word("f"))))])))

ServiceLlmOutcomes ==
    {[kind |-> "raise", text |-> None],
     [kind |-> "response", text |-> None],
     [kind |-> "response", text |-> Some([syntax |-> "fenced", value |-> ResultDocument(IDEAS_REQUESTED)])],
     [kind |-> "response", text |-> Some([syntax |-> "json", value |-> JDict(<<>>)])],
     [kind |-> "response", text |-> Some([syntax |-> "json", value |-> ResultDocument(IDEAS_REQUESTED)])],
     [kind |-> "response", text |-> Some([syntax |-> "json", value |-> ResultDocument(1)])]}

\* A get_all_trends without the test of the scraper list.
no_scrapers_unchecked(ss) == FALSE

\* get_all_trends, `if not self._scrapers`: an empty list is falsy.
no_scrapers(ss) == ss = <<>>

\* A generation step that ends the round when the call raises, as if the
\* exception were swallowed.
generate_call_swallowing_failure(requests, llm) ==
    LET out == analyze_and_generate(llm)
    IN [requests |-> requests + 1, out |-> out,
        next |-> IF out.kind = "return" THEN "send" ELSE "done"]

\* A generation step that stays before the call after its first failure, to
\* call again.
generate_call_retrying_once(requests, llm) ==
    LET out == analyze_and_generate(llm)
    IN [requests |-> requests + 1, out |-> out,
        next |-> IF out.kind = "return" THEN "send"
                 ELSE IF requests = 0 THEN "collected" ELSE "except"]

\* `result = await self.analyzer.analyze_and_generate(trends)`: one request
\* to the model; its result goes on to send_ideas, its exception leaves
\* _generate_and_send_ideas for the caller's except clause.
generate_call(requests, llm) ==
    LET out == analyze_and_generate(llm)
    IN [requests |-> requests + 1, out |-> out,
        next |-> IF out.kind = "return" THEN "send" ELSE "except"]

\* DailyIdeaService.__init__ and start(): the scrapers are built, the
\* scheduler and the polling run, no round is under way.
Init ==
    /\ \E config \in ServiceConfigs :
          LET st == init_scrapers(enabled_or_default(config.enabled), config.key)
          IN /\ enabled_scrapers = enabled_or_default(config.enabled)
             /\ sela_api_key = config.key
             /\ scrapers = st.scrapers
             /\ init_i = Len(enabled_scrapers) + 1
             /\ init_log = st.log
             /\ init_error = st.error
    /\ svc = "running"
    /\ client_closed = FALSE
    /\ pc = [r \in Triggers |-> "idle"]
    /\ tasks = [r \in Triggers |-> <<>>]
    /\ run_trends = [r \in Triggers |-> None]
    /\ run_log = [r \in Triggers |-> <<>>]
    /\ gen_calls = [r \in Triggers |-> 0]
    /\ gen_out = [r \in Triggers |-> None]
    /\ run_error = [r \in Triggers |-> None]
    /\ chat = [r \in Triggers |-> <<>>]
    /\ FormatIdle
    /\ ParseIdle
    /\ FetchIdle

\* The event loop runs the coroutines until loop.close().
LoopRuns == svc \in {"running", "stopping"}

\* The cron trigger fires _scheduled_job, or an /idea update reaches
\* handle_idea: a new round of that trigger starts once its last one is
\* over. handle_idea returns at once when the update has no chat.
Trigger(r, has_chat) ==
    /\ svc = "running"
    /\ pc[r] \in {"idle", "done", "failed"}
    /\ r = "scheduled" => has_chat
    /\ pc' = [pc EXCEPT ![r] = IF ~has_chat THEN "done" ELSE IF r = "idea" THEN "ack" ELSE "collect"]
    /\ tasks' = [tasks EXCEPT ![r] = <<>>]
    /\ run_trends' = [run_trends EXCEPT ![r] = None]
    /\ run_log' = [run_log EXCEPT ![r] = <<>>]
    /\ gen_calls' = [gen_calls EXCEPT ![r] = 0]
    /\ gen_out' = [gen_out EXCEPT ![r] = None]
    /\ run_error' = [run_error EXCEPT ![r] = None]
    /\ chat' = [chat EXCEPT ![r] = <<>>]
    /\ UNCHANGED <<svc, client_closed, notSvcVars>>

\* handle_idea: `await update.effective_chat.send_message(...)`, outside the
\* try block.
SendAck(r, delivered) ==
    /\ LoopRuns
    /\ pc[r] = "ack"
    /\ IF delivered
       THEN /\ chat' = [chat EXCEPT ![r] = Append(@, AckMessage)]
            /\ pc' = [pc EXCEPT ![r] = "collect"]
            /\ UNCHANGED run_error
       ELSE /\ run_error' = [run_error EXCEPT ![r] = Some(TelegramError)]
            /\ pc' = [pc EXCEPT ![r] = "failed"]
            /\ UNCHANGED chat
    /\ UNCHANGED <<svc, client_closed, tasks, run_trends, run_log, gen_calls, gen_out, notSvcVars>>

\* get_all_trends up to `await asyncio.gather(...)`: with no scraper it
\* prints the warning and returns []; otherwise one fetch per scraper starts.
StartCollection(r) ==
    /\ LoopRuns
    /\ pc[r] = "collect"
    /\ IF no_scrapers(scrapers)
       THEN /\ run_log' = [run_log EXCEPT ![r] = Append(@, [print |-> "Warning: No scrapers enabled", name |-> ""])]
            /\ run_trends' = [run_trends EXCEPT ![r] = Some(<<>>)]
            /\ pc' = [pc EXCEPT ![r] = "collected"]
            /\ UNCHANGED tasks
       ELSE /\ tasks' = [tasks EXCEPT ![r] = [i \in 1..Len(scrapers) |-> Pending]]
            /\ pc' = [pc EXCEPT ![r] = "gather"]
            /\ UNCHANGED <<run_log, run_trends>>
    /\ UNCHANGED <<svc, client_closed, gen_calls, gen_out, run_error, chat, notSvcVars>>

\* The fetch of scraper i of the round ends.
TaskFinish(r, i, result) ==
    /\ LoopRuns
    /\ pc[r] = "gather"
    /\ i \in 1..Len(tasks[r])
    /\ tasks[r][i] = Pending
    /\ tasks' = [tasks EXCEPT ![r][i] = result]
    /\ UNCHANGED <<svc, client_closed, pc, run_trends, run_log, gen_calls, gen_out, run_error, chat, notSvcVars>>

\* gather returns and get_all_trends runs to its return.
Join(r) ==
    /\ LoopRuns
    /\ pc[r] = "gather"
    /\ gather_ready(tasks[r])
    /\ LET out == collect_results(scrapers, tasks[r], 1, [all_trends |-> new_all_trends(r), log |-> run_log[r]])
       IN /\ run_trends' = [run_trends EXCEPT ![r] = Some(out.all_trends)]
          /\ run_log' = [run_log EXCEPT ![r] = out.log]
    /\ tasks' = [tasks EXCEPT ![r] = <<>>]
    /\ pc' = [pc EXCEPT ![r] = "collected"]
    /\ UNCHANGED <<svc, client_closed, gen_calls, gen_out, run_error, chat, notSvcVars>>

\* _generate_and_send_ideas, `if not trends`: send_error with the notice,
\* then return.
NothingCollected(r, delivered) ==
    /\ LoopRuns
    /\ pc[r] = "collected"
    /\ not_trends(Val(run_trends[r]))
    /\ IF delivered
       THEN /\ chat' = [chat EXCEPT ![r] = Append(@, ErrorMessage(NOTHING_COLLECTED, None))]
            /\ pc' = [pc EXCEPT ![r] = "done"]
            /\ UNCHANGED run_error
       ELSE /\ run_error' = [run_error EXCEPT ![r] = Some(TelegramError)]
            /\ pc' = [pc EXCEPT ![r] = "except"]
            /\ UNCHANGED chat
    /\ UNCHANGED <<svc, client_closed, tasks, run_trends, run_log, gen_calls, gen_out, notSvcVars>>

\* _generate_and_send_ideas, `await self.analyzer.analyze_and_generate(trends)`.
Generate(r, llm) ==
    /\ LoopRuns
    /\ pc[r] = "collected"
    /\ ~not_trends(Val(run_trends[r]))
    /\ LET call == generate_call(gen_calls[r], llm)
       IN /\ gen_calls' = [gen_calls EXCEPT ![r] = call.requests]
          /\ pc' = [pc EXCEPT ![r] = call.next]
          /\ IF call.out.kind = "return"
             THEN /\ gen_out' = [gen_out EXCEPT ![r] = call.out.result]
                  /\ UNCHANGED run_error
             ELSE /\ run_error' = [run_error EXCEPT ![r] = call.out.error]
                  /\ UNCHANGED gen_out
    /\ UNCHANGED <<svc, client_closed, tasks, run_trends, run_log, chat, notSvcVars>>

\* _generate_and_send_ideas, `await self.bot.send_ideas(chat_id, result)`.
SendIdeas(r, delivered) ==
    /\ LoopRuns
    /\ pc[r] = "send"
    /\ IF delivered
       THEN /\ chat' = [chat EXCEPT ![r] = Append(@, IdeasMessage(Val(gen_out[r])))]
            /\ pc' = [pc EXCEPT ![r] = "done"]
            /\ UNCHANGED run_error
       ELSE /\ run_error' = [run_error EXCEPT ![r] = Some(TelegramError)]
            /\ pc' = [pc EXCEPT ![r] = "except"]
            /\ UNCHANGED chat
    /\ UNCHANGED <<svc, client_closed, tasks, run_trends, run_log, gen_calls, gen_out, notSvcVars>>

\* `except Exception as e` of handle_idea and of _scheduled_job: the error
\* is logged and sent with send_error; a send_error that fails leaves the
\* coroutine with its exception.
HandleError(r, delivered) ==
    /\ LoopRuns
    /\ pc[r] = "except"
    /\ IF delivered
       THEN /\ chat' = [chat EXCEPT ![r] =
                   Append(@, ErrorMessage(IF r = "scheduled" THEN SCHEDULED_JOB_FAILED ELSE "", run_error[r]))]
            /\ pc' = [pc EXCEPT ![r] = "done"]
            /\ run_error' = [run_error EXCEPT ![r] = None]
       ELSE /\ run_error' = [run_error EXCEPT ![r] = Some(TelegramError)]
            /\ pc' = [pc EXCEPT ![r] = "failed"]
            /\ UNCHANGED chat
    /\ UNCHANGED <<svc, client_closed, tasks, run_trends, run_log, gen_calls, gen_out, notSvcVars>>

\* main(), `finally: loop.run_until_complete(service.stop())`: stop() shuts
\* the scheduler down and closes the scraper's client; the coroutines under
\* way keep running while stop() awaits.
Stop ==
    /\ svc = "running"
    /\ svc' = "stopping"
    /\ client_closed' = TRUE
    /\ UNCHANGED <<pc, tasks, run_trends, run_log, gen_calls, gen_out, run_error, chat, notSvcVars>>

\* main(), `loop.close()`: nothing runs any more.
LoopClose ==
    /\ svc = "stopping"
    /\ svc' = "closed"
    /\ UNCHANGED <<client_closed, pc, tasks, run_trends, run_log, gen_calls, gen_out, run_error, chat, notSvcVars>>

Next ==
    \/ \E r \in Triggers, has_chat \in BOOLEAN : Trigger(r, has_chat)
    \/ \E r \in Triggers, delivered \in BOOLEAN : SendAck(r, delivered)
    \/ \E r \in Triggers : StartCollection(r)
    \/ \E r \in Triggers, i \in 1..Len(scrapers) : \E result \in FetchResults(scrapers[i].cls, r) :
           TaskFinish(r, i, result)
    \/ \E r \in Triggers : Join(r)
    \/ \E r \in Triggers, delivered \in BOOLEAN : NothingCollected(r, delivered)
    \/ \E r \in Triggers, llm \in ServiceLlmOutcomes : Generate(r, llm)
    \/ \E r \in Triggers, delivered \in BOOLEAN : SendIdeas(r, delivered)
    \/ \E r \in Triggers, delivered \in BOOLEAN : HandleError(r, delivered)
    \/ Stop
    \/ LoopClose

Spec == Init /\ [][Next]_vars

\* The event loop runs every callback that is ready: a fetch that can end
\* does end, and gather's caller is resumed once gather is done.
Fairness ==
    /\ \A r \in Triggers : WF_vars(Join(r))
    /\ \A r \in Triggers, i \in 1..Len(DEFAULT_SCRAPERS) :
           WF_vars(\E result \in {ListResult(<<>>), ExceptionResult, CancelledResult, OtherResult} :
                       TaskFinish(r, i, result))

LiveSpec == Init /\ [][Next]_vars /\ Fairness

(***************************************************************************)
(* Claims about a collection round, checked under Spec and LiveSpec.       *)
(***************************************************************************)
\* What one result contributes: a returned list its items, anything else
\* nothing.
Contribution(result) == IF result.kind = "list" THEN result.items ELSE <<>>

\* The number of items contributed by the results before position i.
RECURSIVE Offset(_, _)
Offset(results, i) ==
    IF i <= 1 THEN 0 ELSE Offset(results, i - 1) + Len(Contribution(results[i - 1]))

\* out is the results' contributions one after the other, in the order of
\* the results.
IsConcatenation(out, results) ==
    /\ Len(out) = Offset(results, Len(results) + 1)
    /\ \A i \in 1..Len(results) : \A j \in 1..Len(Contribution(results[i])) :
           out[Offset(results, i) + j] = Contribution(results[i])[j]

\* C1: whenever get_all_trends returns, in whatever order the fetches of the
\* round ended, the list it returns is the concatenation, in the order of
\* the instantiated scrapers, of the lists the fetches returned, each in its
\* own order: its length is the sum of the contributions, and a fetch that
\* raised contributes no item.
C1_ReturnsConcatenationInSourceOrder ==
    [][\A r \in Triggers :
          (pc[r] # "collected" /\ pc'[r] = "collected") =>
              /\ run_trends'[r] # None
              /\ IsConcatenation(Val(run_trends'[r]), tasks[r])
              /\ \A i \in 1..Len(tasks[r]) :
                     tasks[r][i].kind = "exception" => Len(Contribution(tasks[r][i])) = 0]_vars

\* One round returned the items of both sources, the first source's before
\* the second's; another returned the second source's items after the first
\* source raised.
C1_Witness ==
    /\ Len(scrapers) = 2
    /\ pc["scheduled"] = "collected"
    /\ run_trends["scheduled"] = Some(SourceItems(scrapers[1].cls, MaxItems, "scheduled")
                                            \o SourceItems(scrapers[2].cls, MaxItems, "scheduled"))
    /\ pc["idea"] = "collected"
    /\ run_log["idea"] = <<[print |-> "Error in", name |-> scraper_name(scrapers[1].cls)]>>
    /\ run_trends["idea"] = Some(SourceItems(scrapers[2].cls, MaxItems, "idea"))

\* C2: a round starts one fetch per instantiated scraper; get_all_trends
\* leaves the gather only when every one of them has ended; the end of one
\* fetch, a failure included, changes no sibling; and a round that waits in
\* the gather leaves it, unless the event loop is closed first.
C2_FanOutJoinsAfterEveryFetch ==
    /\ [][\A r \in Triggers :
             /\ (pc[r] = "collect" /\ pc'[r] # "collect" /\ scrapers # <<>>) =>
                    /\ pc'[r] = "gather"
                    /\ Len(tasks'[r]) = Len(scrapers)
                    /\ \A i \in 1..Len(scrapers) : tasks'[r][i].kind = "pending"
             /\ (pc[r] = "gather" /\ pc'[r] # "gather") =>
                    /\ Len(tasks[r]) = Len(scrapers)
                    /\ \A i \in 1..Len(scrapers) : tasks[r][i].kind # "pending"
             /\ (pc[r] = "gather" /\ pc'[r] = "gather") =>
                    /\ Len(tasks'[r]) = Len(tasks[r])
                    /\ \A i, j \in 1..Len(tasks[r]) :
                           (i # j /\ tasks[r][i].kind = "pending" /\ tasks'[r][i].kind # "pending")
                               => tasks'[r][j] = tasks[r][j]
                    /\ \A i \in 1..Len(tasks[r]) :
                           tasks[r][i].kind # "pending" => tasks'[r][i] = tasks[r][i]]_vars
    /\ \A r \in Triggers : (pc[r] = "gather") ~> (pc[r] = "collected" \/ svc = "closed")

\* One round waits in the gather with its first fetch failed and its second
\* still running; another returned the second source's items after its first
\* fetch failed.
C2_Witness ==
    /\ Len(scrapers) = 2
    /\ pc["scheduled"] = "gather"
    /\ tasks["scheduled"] = <<ExceptionResult, Pending>>
    /\ pc["idea"] = "collected"
    /\ Len(run_log["idea"]) = 1
    /\ run_trends["idea"] # Some(<<>>)

(***************************************************************************)
(* Claims about a round of _generate_and_send_ideas, checked under Spec.   *)
(***************************************************************************)
\* The round's coroutine is over: it returned, or an exception left it.
RoundOver(r) == pc[r] \in {"done", "failed"}

\* The chat received the notice in the round.
NoticeReceived(r) ==
    \E k \in 1..Len(chat[r]) : chat[r][k] = ErrorMessage(NOTHING_COLLECTED, None)

\* Generation is called only after a collection that returned items, and a
\* collection that returned none is followed by no generation call.
GenerationOnlyAfterItems(r) ==
    /\ gen_calls[r] > 0 => (run_trends[r] # None /\ Len(Val(run_trends[r])) > 0)
    /\ run_trends[r] = Some(<<>>) => (gen_calls[r] = 0 /\ gen_out[r] = None /\ pc[r] # "send")

\* C9 as stated: in every round, a collection of zero items is followed by
\* no generation call and by the notice in the chat, and generation is
\* called only after a non-empty collection.
C9_EmptyCollectionSendsNotice ==
    \A r \in Triggers :
        /\ GenerationOnlyAfterItems(r)
        /\ (run_trends[r] = Some(<<>>) /\ RoundOver(r)) => NoticeReceived(r)

\* The send of the notice raised: the except clause took over, and the chat
\* got the error notice of that failure, or the round ended with the
\* exception of a second failed send.
NoticeSendFailed(r) ==
    \/ pc[r] = "failed" /\ run_error[r] = Some(TelegramError) /\ chat[r] \in {<<>>, <<AckMessage>>}
    \/ /\ pc[r] = "done"
       /\ chat[r] # <<>>
       /\ chat[r][Len(chat[r])] =
              ErrorMessage(IF r = "scheduled" THEN SCHEDULED_JOB_FAILED ELSE "", Some(TelegramError))

\* C9, amended: in every round, a collection of zero items is followed by no
\* generation call and by the send of the notice, the only message the
\* round sends after the collection when that send succeeds; generation is
\* called only after a non-empty collection.
C9_EmptyCollectionSendsNoticeIfDelivered ==
    \A r \in Triggers :
        /\ GenerationOnlyAfterItems(r)
        /\ (run_trends[r] = Some(<<>>) /\ RoundOver(r)) =>
               \/ /\ NoticeReceived(r)
                  /\ pc[r] = "done"
                  /\ chat[r][Len(chat[r])] = ErrorMessage(NOTHING_COLLECTED, None)
                  /\ \A k \in 1..Len(chat[r]) : chat[r][k].kind = "error" => k = Len(chat[r])
               \/ NoticeSendFailed(r)

\* Both rounds are over after an empty collection with the notice in the
\* chat: the scheduled one with no scraper result at all, the /idea one
\* after its acknowledgement.
C9_Witness ==
    /\ pc["scheduled"] = "done"
    /\ run_trends["scheduled"] = Some(<<>>)
    /\ chat["scheduled"] = <<ErrorMessage(NOTHING_COLLECTED, None)>>
    /\ pc["idea"] = "done"
    /\ run_trends["idea"] = Some(<<>>)
    /\ chat["idea"] = <<AckMessage, ErrorMessage(NOTHING_COLLECTED, None)>>
    /\ gen_calls = [r \in Triggers |-> 0]

(***************************************************************************)
(* Claims about the shared HTTP client, checked under Spec.                *)
(***************************************************************************)
\* The round of the trigger has collection work ahead or under way: it was
\* started and get_all_trends has not returned.
RoundCollecting(r) == pc[r] \in {"ack", "collect", "gather"}

\* C13 as claimed: the client is closed by stop() only, never while the
\* service still runs its rounds, and only when no collection round of the
\* scheduled job or of the /idea handler is under way: no round is running
\* with a closed client.
C13_ClientClosedAfterRoundsEnd ==
    /\ client_closed => svc # "running"
    /\ client_closed => \A r \in Triggers : ~RoundCollecting(r)

(***************************************************************************)
(* Claims about the generation step of a round, checked under Spec.        *)
(***************************************************************************)
\* The exceptions analyze_and_generate lets out: the request's own error,
\* the ValueError of a response that does not parse, and pydantic's error.
GenerationErrors ==
    {Val(analyze_and_generate(llm).error) :
        llm \in {l \in ServiceLlmOutcomes : analyze_and_generate(l).kind = "raise"}}

\* The generation call of the round was made and raised.
GenerationFailed(r) == gen_calls[r] > 0 /\ gen_out[r] = None

\* The message send_error builds in the caller's except clause.
CallerErrorMessage(r, e) ==
    ErrorMessage(IF r = "scheduled" THEN SCHEDULED_JOB_FAILED ELSE "", Some(e))

\* C14: a round makes one request to the model at most; when the call
\* raises, no result is kept, the exception is the one the caller's except
\* clause holds, the caller sends it to the chat with send_error as the last
\* message of the round, and no second request follows.
C14_GenerationFailsOnceAndIsReported ==
    \A r \in Triggers :
        /\ gen_calls[r] <= 1
        /\ GenerationFailed(r) =>
               /\ pc[r] \in {"except", "done", "failed"}
               /\ pc[r] = "except" => (run_error[r] # None /\ Val(run_error[r]) \in GenerationErrors)
               /\ pc[r] = "done" =>
                      /\ chat[r] # <<>>
                      /\ \E e \in GenerationErrors : chat[r][Len(chat[r])] = CallerErrorMessage(r, e)
                      /\ \A k \in 1..Len(chat[r]) : chat[r][k].kind # "ideas"
               /\ pc[r] = "failed" => run_error[r] = Some(TelegramError)

\* Both rounds are over after a generation call that raised, each with one
\* request made and an error notice as the last message in its chat.
C14_Witness ==
    /\ \A r \in Triggers : pc[r] = "done" /\ gen_calls[r] = 1 /\ gen_out[r] = None
    /\ chat["scheduled"] = <<CallerErrorMessage("scheduled", Val(analyze_and_generate([kind |-> "raise", text |-> None]).error))>>
    /\ \E e \in GenerationErrors :
           /\ e.type = "ValueError"
           /\ chat["idea"] = <<AckMessage, CallerErrorMessage("idea", e)>>

(***************************************************************************)
(* Claims about GitHubScraper.fetch, checked under SpecFetch.              *)
(***************************************************************************)
\* An entry of `items` with the four keys fetch reads, of the types the
\* search API gives them; language may be null.
WellFormedRepo(repo) ==
    /\ repo.t = "dict"
    /\ RepoKeys \subseteq DOMAIN repo.dict
    /\ repo.dict["full_name"].t = "str"
    /\ repo.dict["html_url"].t = "str"
    /\ repo.dict["stargazers_count"].t = "int"
    /\ repo.dict["language"].t \in {"str", "NoneType"}

\* The call was made on the repository source and the response's body is an
\* object whose `items` is an array of well-formed entries.
WellFormedSearchResult ==
    /\ fetch_scraper.cls = "GitHubScraper"
    /\ fetch_result # None
    /\ Len(fetch_http) = 1
    /\ fetch_http[1].outcome.kind = "response"
    /\ fetch_http[1].outcome.json
    /\ fetch_http[1].outcome.body.t = "dict"
    /\ "items" \in DOMAIN fetch_http[1].outcome.body.dict
    /\ fetch_http[1].outcome.body.dict["items"].t = "list"
    /\ \A i \in 1..Len(fetch_http[1].outcome.body.dict["items"].list) :
           WellFormedRepo(fetch_http[1].outcome.body.dict["items"].list[i])

\* The TrendItem is the one of the entry: named after its full_name, with
\* its link, its stars and its description.
ItemOfRepo(item, repo) ==
    /\ item.source = <<"GitHub">>
    /\ item.title.id # <<>>
    /\ item.title.id[1] = repo.dict["full_name"].str.id[1]
    /\ item.url = Some(repo.dict["html_url"].str)
    /\ item.score = Some(repo.dict["stargazers_count"].int)
    /\ item.description = IF "description" \in DOMAIN repo.dict /\ repo.dict["description"].t = "str"
                          THEN Some(repo.dict["description"].str) ELSE None

\* C16: for a response whose `items` array has n well-formed entries,
\* GitHubScraper.fetch returns the TrendItems of the first min(n, 10)
\* entries, in the order of the response, and prints no error; for n = 0 it
\* returns the empty list and prints no error.
C16_GitHubReturnsFirstTenInOrder ==
    WellFormedSearchResult =>
        LET repos == fetch_http[1].outcome.body.dict["items"].list
            out == Val(fetch_result)
        IN /\ out.kind = "return"
           /\ fetch_log = <<>>
           /\ fetch_http[1].raised = None
           /\ Len(Val(out.result)) = Min(Len(repos), 10)
           /\ \A k \in 1..Len(Val(out.result)) : ItemOfRepo(Val(out.result)[k], repos[k])
           /\ repos = <<>> => out = Return(<<>>)

\* C16's case: a response with more than 10 well-formed entries, one of
\* them without a language, was answered with 10 items.
C16_Witness ==
    /\ WellFormedSearchResult
    /\ Len(fetch_http[1].outcome.body.dict["items"].list) > 10
    /\ \E i \in 1..10 : fetch_http[1].outcome.body.dict["items"].list[i].dict["language"].t = "NoneType"
    /\ Len(Val(Val(fetch_result).result)) = 10

(***************************************************************************)
(* Claims about the TrendItems of either source, checked under SpecFetch.  *)
(***************************************************************************)
\* C17 as claimed: every TrendItem a fetch returns, whatever the response
\* held, missing and null fields included, has a title and a url that are
\* strings, possibly empty, never None; score and description may be None.
C17_TitleAndUrlArePresent ==
    (fetch_result # None /\ Val(fetch_result).kind = "return") =>
        \A k \in 1..Len(Val(Val(fetch_result).result)) :
            LET item == Val(Val(fetch_result).result)[k]
            IN /\ DOMAIN item.title = {"id", "len"}
               /\ item.url # None

(***************************************************************************)
(* Claims about overlapping rounds, checked under Spec.                    *)
(***************************************************************************)
\* The items the sources returned to the fetch calls of one round.
ItemsReturnedTo(r) ==
    UNION {{SourceItems(scrapers[i].cls, n, r)[j] : j \in 1..n} :
              i \in 1..Len(scrapers), n \in {0, MaxItems}}

\* C18: the list a round's get_all_trends returns holds items its own fetch
\* calls returned and no item returned to a call of the other round, also
\* when the two rounds overlap; and a step of one round's collection (a
\* fetch of its own ending, its join) changes neither the results nor the
\* returned list of the other round.
C18_RoundsShareNoResults ==
    /\ [](\A r \in Triggers :
              run_trends[r] # None =>
                  \A k \in 1..Len(Val(run_trends[r])) :
                      /\ Val(run_trends[r])[k] \in ItemsReturnedTo(r)
                      /\ \A q \in Triggers \ {r} : Val(run_trends[r])[k] \notin ItemsReturnedTo(q))
    /\ [][\A r \in Triggers :
             (pc[r] = "gather" /\ (tasks'[r] # tasks[r] \/ run_trends'[r] # run_trends[r])) =>
                 \A q \in Triggers \ {r} :
                     /\ tasks'[q] = tasks[q]
                     /\ run_trends'[q] = run_trends[q]
                     /\ run_log'[q] = run_log[q]]_vars

\* One round has returned its own items while the other, started before
\* that return, still waits in its gather with results of its own.
C18_Witness ==
    /\ Len(scrapers) = 2
    /\ pc["idea"] = "collected"
    /\ run_trends["idea"] = Some(SourceItems(scrapers[1].cls, MaxItems, "idea")
                                     \o SourceItems(scrapers[2].cls, MaxItems, "idea"))
    /\ pc["scheduled"] = "gather"
    /\ tasks["scheduled"] = <<ListResult(SourceItems(scrapers[1].cls, MaxItems, "scheduled")), Pending>>

(***************************************************************************)
(* Claims about the collector's handling of failed tasks, under Spec.      *)
(***************************************************************************)
\* The entry get_all_trends prints for the scraper at position i.
ErrorIn(i) == [print |-> "Error in", name |-> scraper_name(scrapers[i].cls)]

\* C19 as claimed: when get_all_trends returns, every task whose outcome is
\* not a returned list (an Exception, a cancellation, a value that is no
\* list) has one "Error in <source-name>" entry in what the call printed,
\* and contributes no item; no such outcome goes without an entry.
C19_EveryNonListOutcomeIsLogged ==
    [][\A r \in Triggers :
          (pc[r] = "gather" /\ pc'[r] = "collected") =>
              LET failed == {i \in 1..Len(tasks[r]) : tasks[r][i].kind # "list"}
              IN /\ Len(run_log'[r]) = Len(run_log[r]) + Cardinality(failed)
                 /\ \A i \in failed :
                        Cardinality({k \in 1..Len(run_log'[r]) : run_log'[r][k] = ErrorIn(i)})
                            = Cardinality({j \in failed : scraper_name(scrapers[j].cls) = scraper_name(scrapers[i].cls)})
                 /\ Len(Val(run_trends'[r])) = Offset(tasks[r], Len(tasks[r]) + 1)]_vars

(***************************************************************************)
(* Claims about a service with no scraper, checked under Spec.             *)
(***************************************************************************)
\* The warning get_all_trends prints when it has no scraper.
NoScrapersWarning == [print |-> "Warning: No scrapers enabled", name |-> ""]

\* C20: when every enabled identifier was skipped and the scraper list is
\* empty, a round starts no fetch and never waits in a gather; once its
\* get_all_trends has returned, the returned list is empty and the warning
\* is what the call printed; and the round makes no generation request and
\* never reaches the sending of ideas.
C20_NoScrapersNoFetchNoGeneration ==
    scrapers = <<>> =>
        \A r \in Triggers :
            /\ tasks[r] = <<>>
            /\ pc[r] # "gather"
            /\ run_trends[r] # None => (run_trends[r] = Some(<<>>) /\ run_log[r] = <<NoScrapersWarning>>)
            /\ run_trends[r] = None => run_log[r] = <<>>
            /\ gen_calls[r] = 0
            /\ gen_out[r] = None
            /\ pc[r] # "send"

\* Twitter alone is enabled without a credential: both rounds are over, each
\* with the warning printed, an empty list returned and the notice sent.
C20_Witness ==
    /\ scrapers = <<>>
    /\ enabled_scrapers = <<"twitter">>
    /\ \A r \in Triggers :
           /\ pc[r] = "done"
           /\ run_trends[r] = Some(<<>>)
           /\ run_log[r] = <<NoScrapersWarning>>
           /\ gen_calls[r] = 0
           /\ chat[r][Len(chat[r])] = ErrorMessage(NOTHING_COLLECTED, None)

(***************************************************************************)
(* Claims about TwitterScraper.fetch, checked under SpecFetch.             *)
(***************************************************************************)
\* C21: TwitterScraper.fetch without a credential (None or "") makes no
\* request, never enters its loop and returns the empty list; with a
\* credential each iteration makes exactly one scrape request, for the
\* queries of search_queries in their order, one iteration per query by the
\* time the call returns, and the items gathered for any one query never
\* exceed post_count.
C21_TwitterRequestsOncePerQuery ==
    fetch_scraper.cls = "TwitterScraper" =>
        LET queries == fetch_scraper.search_queries
        IN IF ~TruthyStr(fetch_scraper.sela_api_key)
           THEN /\ fetch_http = <<>>
                /\ fetch_pc # "loop"
                /\ all_items = <<>>
                /\ fetch_result # None => fetch_result = Some(Return(<<>>))
           ELSE /\ Len(fetch_http) <= Len(queries)
                /\ \A k \in 1..Len(fetch_http) :
                       /\ fetch_http[k].query = Some(queries[k])
                       /\ fetch_http[k].requests = 1
                /\ \A q \in 1..Len(queries) :
                       Len(ItemsOf(all_items, twitter_source(queries[q]))) <= fetch_scraper.post_count
                /\ fetch_result # None =>
                       /\ Len(fetch_http) = Len(queries)
                       /\ Val(fetch_result) = Return(all_items)

\* C21's case: a call with a credential returned after one request for each
\* of MaxQueries queries, the first of which answered more posts than
\* post_count and contributed post_count items.
C21_Witness ==
    /\ fetch_scraper.cls = "TwitterScraper"
    /\ TruthyStr(fetch_scraper.sela_api_key)
    /\ fetch_result # None
    /\ Len(fetch_http) = MaxQueries
    /\ Len(BodyPosts(fetch_http[1].outcome.body)) > fetch_scraper.post_count
    /\ fetch_http[1].raised = None
    /\ Len(ItemsOf(all_items, twitter_source(fetch_scraper.search_queries[1]))) = fetch_scraper.post_count

\* The score the description gives a post: its likes count when it has one,
\* 0 included, and its views count only when it has no likes count.
LikesElseViews(post) ==
    IF "likesCount" \in DOMAIN post.dict /\ post.dict["likesCount"].t = "int"
    THEN Some(post.dict["likesCount"].int)
    ELSE IF "viewsCount" \in DOMAIN post.dict /\ post.dict["viewsCount"].t = "int"
         THEN Some(post.dict["viewsCount"].int)
         ELSE None

\* C22 as claimed: in the list TwitterScraper.fetch returns, the item of
\* every mapped post of a query that did not fail has the post's likes count
\* as its score whenever the post has one, a count of 0 included, and the
\* views count only when the likes count is absent.
C22_ScoreIsLikesElseViews ==
    (fetch_result # None /\ fetch_scraper.cls = "TwitterScraper"
     /\ TruthyStr(fetch_scraper.sela_api_key))
        => LET queries == fetch_scraper.search_queries
               items == Val(Val(fetch_result).result)
           IN \A q \in 1..Len(queries) :
                  fetch_http[q].raised = None
                      => LET posts == Take(BodyPosts(fetch_http[q].outcome.body),
                                           fetch_scraper.post_count)
                             mapped == ItemsOf(items, twitter_source(queries[q]))
                         IN /\ Len(mapped) = Len(posts)
                            /\ \A j \in 1..Len(posts) : mapped[j].score = LikesElseViews(posts[j])

(***************************************************************************)
(* Claims about responses with an error status, checked under SpecFetch.   *)
(***************************************************************************)
\* The exchanges of the call that were answered with an error status.
ErrorStatusExchanges ==
    {k \in 1..Len(fetch_http) :
        fetch_http[k].outcome.kind = "response" /\ fetch_http[k].outcome.status >= 400}

\* C23 as claimed: when a GitHub search or a Sela scrape request is answered
\* with a non-success status, the call returns no TrendItem for that
\* request, whatever the body holds, and the error is printed with the
\* source's name.
C23_ErrorStatusContributesNothing ==
    fetch_result # None =>
        \A k \in ErrorStatusExchanges :
            /\ Val(fetch_result).kind = "return"
            /\ IF fetch_scraper.cls = "TwitterScraper"
               THEN ItemsOf(Val(Val(fetch_result).result), twitter_source(Val(fetch_http[k].query))) = <<>>
               ELSE Val(Val(fetch_result).result) = <<>>
            /\ \E e \in 1..Len(fetch_log) :
                   /\ fetch_log[e].source = scraper_name(fetch_scraper.cls)
                   /\ fetch_log[e].query = fetch_http[k].query

(***************************************************************************)
(* Claims about the messages of a trigger, checked under Spec.             *)
(***************************************************************************)
\* Every send of the round was delivered: no exception of a send left the
\* coroutine or reached the except clause.
DeliverySucceeded(r) ==
    /\ pc[r] # "failed"
    /\ run_error[r] # Some(TelegramError)
    /\ \A k \in 1..Len(chat[r]) : chat[r][k].error # Some(TelegramError)

\* The round is one of the scheduled job, or one of the /idea handler for a
\* command sent in a chat, which was acknowledged there.
TriggeredInChat(r) == r = "scheduled" \/ (chat[r] # <<>> /\ chat[r][1] = AckMessage)

\* The messages of the round after the acknowledgement of the command.
TerminalMessages(r) == IF r = "idea" THEN Tail(chat[r]) ELSE chat[r]

\* C24: a trigger whose round is over, with every send delivered, has
\* exactly one message after the acknowledgement, and it is the ideas of the
\* result of a generation call that returned, after a non-empty collection;
\* or the nothing-collected notice, after a collection of zero items and no
\* generation call; or the error notice of the exception a generation call
\* raised, with no result and no ideas sent.
C24_OneTerminalMessagePerTrigger ==
    \A r \in Triggers :
        (pc[r] = "done" /\ DeliverySucceeded(r) /\ TriggeredInChat(r)) =>
            LET sent == TerminalMessages(r)
            IN /\ Len(sent) = 1
               /\ run_trends[r] # None
               /\ \/ /\ sent[1].kind = "ideas"
                     /\ gen_calls[r] = 1
                     /\ gen_out[r] # None
                     /\ sent[1] = IdeasMessage(Val(gen_out[r]))
                     /\ Len(Val(run_trends[r])) > 0
                  \/ /\ sent[1] = ErrorMessage(NOTHING_COLLECTED, None)
                     /\ run_trends[r] = Some(<<>>)
                     /\ gen_calls[r] = 0
                     /\ gen_out[r] = None
                  \/ /\ \E e \in GenerationErrors : sent[1] = CallerErrorMessage(r, e)
                     /\ gen_calls[r] = 1
                     /\ gen_out[r] = None
                     /\ Len(Val(run_trends[r])) > 0

\* The scheduled round ended with the ideas as its only message while the
\* /idea round ended with the error notice after its acknowledgement.
C24_Witness ==
    /\ pc["scheduled"] = "done"
    /\ gen_out["scheduled"] # None
    /\ chat["scheduled"] = <<IdeasMessage(Val(gen_out["scheduled"]))>>
    /\ pc["idea"] = "done"
    /\ DeliverySucceeded("idea")
    /\ Len(chat["idea"]) = 2
    /\ chat["idea"][1] = AckMessage
    /\ chat["idea"][2].kind = "error"
    /\ chat["idea"][2].error # None

====
